---------------------------- MODULE Spec2Model ----------------------------
(***************************************************************************)
(* Model of lib-qemu-launcher: the executable resolver (QEMU_ROOT, PATH,   *)
(* platform-specific locations) and the Launcher facade with its process   *)
(* session, in the four builds the repository holds:                       *)
(*   "linux"      src/unnamed/part_000 lines 1-72 (free resolver) behind   *)
(*                the generic Launcher of src/src/qemu_launcher.cpp        *)
(*   "macos"      src/unnamed/part_000 lines 73-411 (Launcher::Impl)       *)
(*   "windows_v1" src/src/qemu_launcher_windows.cpp lines 1-219 (free      *)
(*                resolver) behind the generic Launcher                    *)
(*   "windows"    src/src/qemu_launcher_windows.cpp lines 220-633          *)
(*                (Launcher::Impl)                                         *)
(* A string is a sequence of one-character strings, so that find, substr,  *)
(* concatenation and the NUL a conversion appends are what the code does.  *)
(***************************************************************************)
EXTENDS Integers, Sequences, FiniteSets, TLC

VARIABLES
    variant,      \* which build of the library runs
    qemuRoot,     \* environment variable QEMU_ROOT: [set, val]
    pathEnv,      \* environment variable PATH: [set, val]
    installDir,   \* registry value HKLM\SOFTWARE\QEMU\Install_Dir: [set, val]
    files,        \* paths of the files that exist
    xfiles,       \* those of them the process may execute (POSIX X_OK)
    last,         \* the last resolver call: its arguments, result, probes, reads
    mQemuPath,    \* Launcher configuration
    mBiosFile,
    mArguments,
    mQemuPid,     \* Impl::mQemuPid (macOS build), -1 when there is no child
    mQemuStdin,   \* Impl::mQemuStdin: "null" or "stream"
    mStdInPipe,   \* Impl::mStdInPipe[2] and its siblings (macOS build)
    mStdOutPipe,
    mStdErrPipe,
    handles,      \* descriptors and handles open in the parent: [fd, kind]
    children,     \* the child processes spawned so far, oldest first
    nStarts,      \* how often Impl::start() was entered
    pc,           \* where the caller is: "idle", or blocked inside a call
    event,        \* the last call of a member of the Launcher: its inputs,
                  \* its result, what it did
    registered,   \* the callbacks stored: mOnStdOut, mOnStdErr, mOnSerial, mOnExit
    invoked,      \* the calls made of stored callbacks, oldest first
    produced,     \* the channels the children wrote a chunk to, oldest first
    thr           \* the threads that call stop() or terminate() side by side:
                  \* where each is in the call and what it has done

envVars == <<variant, qemuRoot, pathEnv, installDir, files, xfiles>>
cfgVars == <<mQemuPath, mBiosFile, mArguments>>
cbVars == <<registered, invoked, produced>>
pipeVars == <<mStdInPipe, mStdOutPipe, mStdErrPipe>>
sessState == <<mQemuPid, mQemuStdin, mStdInPipe, mStdOutPipe, mStdErrPipe,
               handles, children, nStarts, pc>>
sessVars == <<mQemuPid, mQemuStdin, mStdInPipe, mStdOutPipe, mStdErrPipe,
              handles, children, nStarts, pc, event>>
vars == <<variant, qemuRoot, pathEnv, installDir, files, xfiles, last,
          mQemuPath, mBiosFile, mArguments,
          mQemuPid, mQemuStdin, mStdInPipe, mStdOutPipe, mStdErrPipe,
          handles, children, nStarts, pc, event,
          registered, invoked, produced, thr>>

----------------------------------------------------------------------------
(* Bounds of the model *)

\* PATH holds at most this many segments
MaxSegs == 2
\* at most this many files exist
MaxFiles == 2
\* at most this many addArgument calls
MaxArgs == 2
\* Impl::start() is entered at most this many times in one run
MaxStarts == 2
\* the children write at most this many chunks of output in one run
MaxChunks == 1

----------------------------------------------------------------------------
(* Strings *)

npos == -1
NUL == "NUL"
EXE == <<".", "e", "x", "e">>
Empty == <<>>

Variants == {"linux", "macos", "windows_v1", "windows"}
IsWindows(v) == v \in {"windows_v1", "windows"}
IsPosix(v) == v \in {"linux", "macos"}
\* the Launcher of src/src/qemu_launcher.cpp, linked with a free resolver
IsGeneric(v) == v \in {"linux", "windows_v1"}

Unset == [set |-> FALSE, val |-> <<>>]
EnvVal(v) == [set |-> TRUE, val |-> v]

\* std::string::find(ch, pos): the 0-based index of the first ch at or after pos
find(str, ch, pos) ==
    IF \E i \in (pos + 1)..Len(str) : str[i] = ch
    THEN (CHOOSE i \in (pos + 1)..Len(str) :
             str[i] = ch /\ \A j \in (pos + 1)..(i - 1) : str[j] # ch) - 1
    ELSE npos

\* std::string::substr(pos, n) and substr(pos)
substr(str, pos, n) ==
    SubSeq(str, pos + 1, IF pos + n > Len(str) THEN Len(str) ELSE pos + n)
substrFrom(str, pos) == SubSeq(str, pos + 1, Len(str))

\* what a C API sees of a std::string: the characters before the first NUL
c_str(str) ==
    IF find(str, NUL, 0) = npos THEN str ELSE substr(str, 0, find(str, NUL, 0))

----------------------------------------------------------------------------
(* The file system *)

\* the components of a path name; "/" separates them, and "\\" as well
RECURSIVE Components(_, _, _)
Components(path, cur, acc) ==
    IF path = Empty THEN Append(acc, cur)
    ELSE IF Head(path) \in {"/", "\\"}
         THEN Components(Tail(path), Empty, Append(acc, cur))
         ELSE Components(Tail(path), Append(cur, Head(path)), acc)

\* path name resolution of ".." through directories that exist: the parent of
\* the directory reached so far, the root being its own parent
RECURSIVE Collapse(_, _)
Collapse(comps, stack) ==
    IF comps = <<>> THEN stack
    ELSE IF Head(comps) = <<".", ".">>
         THEN Collapse(Tail(comps),
                       IF Len(stack) > 0 /\ stack[Len(stack)] # Empty
                       THEN SubSeq(stack, 1, Len(stack) - 1) ELSE stack)
         ELSE Collapse(Tail(comps), Append(stack, Head(comps)))

RECURSIVE JoinSegs(_, _)
JoinSegs(segs, sepch) ==
    IF Len(segs) = 0 THEN Empty
    ELSE IF Len(segs) = 1 THEN segs[1]
    ELSE segs[1] \o <<sepch>> \o JoinSegs(Tail(segs), sepch)

\* the file a path name leads to, as the operating system resolves it
HasDotDot(path) == \E i \in 1..(Len(path) - 1) : path[i] = "." /\ path[i + 1] = "."
Resolve(path) ==
    IF HasDotDot(path)
    THEN JoinSegs(Collapse(Components(path, Empty, <<>>), <<>>), "/")
    ELSE path

\* std::filesystem::exists(path)
exists(path) == Resolve(c_str(path)) \in files
\* access(path, X_OK) == 0
access_X_OK(path) == Resolve(c_str(path)) \in xfiles

\* a resolver result: the value returned, the paths probed, the variables read
Res(ret, probes, reads) == [ret |-> ret, probes |-> probes, reads |-> reads]
NotFound(probes, reads) == Res(Empty, probes, reads)

----------------------------------------------------------------------------
(* The resolver: one probe *)

SLASH == <<"/">>
BACKSLASH == <<"\\">>

\* Linux build: directory + "/" + system + ".exe", std::filesystem::exists
getExePathIfExists_linux(directory, system) ==
    LET exePath == directory \o SLASH \o system \o EXE
    IN  IF exists(exePath) THEN Res(exePath, <<exePath>>, <<>>)
        ELSE NotFound(<<exePath>>, <<>>)

\* macOS build: exists and is executable
isFileExists_macos(path) == exists(path) /\ access_X_OK(path)

\* (mutant) the path is returned without the test
getExePathIfExists_macos_untested(directory, system) ==
    LET exePath == directory \o SLASH \o system
    IN  Res(exePath, <<exePath>>, <<>>)

\* macOS build: directory + "/" + system
getExePathIfExists_macos(directory, system) ==
    LET exePath == directory \o SLASH \o system
    IN  IF isFileExists_macos(exePath) THEN Res(exePath, <<exePath>>, <<>>)
        ELSE NotFound(<<exePath>>, <<>>)

\* Windows build: GetFileAttributesW(path) != INVALID_FILE_ATTRIBUTES
isFileExists_windows(path) == exists(path)

\* MultiByteToWideChar(..., str.c_str(), -1, ...): the characters up to the NUL
stdStringToWindows(str) == c_str(str)

\* WideCharToMultiByte(..., wstr, -1, ...) counts the terminating NUL, and
\* std::string str(size, 0) keeps it: the result is the text followed by a NUL
windowsToStdString(wstr) == wstr \o <<NUL>>

\* Windows build: L"%s\\%s.exe" of directory and system; nullptr is <<>>
getExePathIfExists_windows(directory, system) ==
    LET path == directory \o BACKSLASH \o stdStringToWindows(system) \o EXE
    IN  IF isFileExists_windows(path) THEN Res(path, <<path>>, <<>>)
        ELSE NotFound(<<path>>, <<>>)

getExePathIfExists(v, directory, system) ==
    CASE v = "linux" -> getExePathIfExists_linux(directory, system)
      [] v = "macos" -> getExePathIfExists_macos(directory, system)
      [] OTHER -> getExePathIfExists_windows(directory, system)

\* a followed by b: b's probes and reads come after a's
AndThen(a, b) == Res(b.ret, a.probes \o b.probes, a.reads \o b.reads)

----------------------------------------------------------------------------
(* The resolver: the QEMU_ROOT strategy *)

\* POSIX builds: std::getenv("QEMU_ROOT"), nullptr when unset
findQemuExecutableEnv_posix(v, system) ==
    IF ~qemuRoot.set THEN NotFound(<<>>, <<"QEMU_ROOT">>)
    ELSE AndThen(NotFound(<<>>, <<"QEMU_ROOT">>),
                 getExePathIfExists(v, qemuRoot.val, system))

\* GetEnvironmentVariableW(name, nullptr, 0): 0 when unset, else length + 1
GetEnvironmentVariableW_size(var) == IF var.set THEN Len(var.val) + 1 ELSE 0

\* Windows builds: probe only when 0 < written < size
findQemuExecutableEnv_windows(v, system) ==
    LET size == GetEnvironmentVariableW_size(qemuRoot)
        written == Len(qemuRoot.val)
    IN  IF size = 0 THEN NotFound(<<>>, <<"QEMU_ROOT">>)
        ELSE IF written > 0 /\ written < size
        THEN AndThen(NotFound(<<>>, <<"QEMU_ROOT", "QEMU_ROOT">>),
                     getExePathIfExists(v, qemuRoot.val, system))
        ELSE NotFound(<<>>, <<"QEMU_ROOT", "QEMU_ROOT">>)

findQemuExecutableEnv(v, system) ==
    IF IsWindows(v) THEN findQemuExecutableEnv_windows(v, system)
    ELSE findQemuExecutableEnv_posix(v, system)

----------------------------------------------------------------------------
(* The resolver: the PATH strategy *)

\* POSIX builds: the while loop over ':' and the last (or only) directory
RECURSIVE pathLoop_posix(_, _, _, _, _, _)
pathLoop_posix(v, pathStr, start, end, system, acc) ==
    IF end # npos
    THEN LET directory == substr(pathStr, start, end - start)
             r == AndThen(acc, getExePathIfExists(v, directory, system))
         IN  IF r.ret # Empty THEN r
             ELSE pathLoop_posix(v, pathStr, end + 1,
                                 find(pathStr, ":", end + 1), system, r)
    ELSE LET directory == substrFrom(pathStr, start)
         IN  AndThen(acc, getExePathIfExists(v, directory, system))

findQemuExecutablePath_posix(v, system) ==
    IF ~pathEnv.set THEN NotFound(<<>>, <<"PATH">>)
    ELSE pathLoop_posix(v, pathEnv.val, 0, find(pathEnv.val, ":", 0), system,
                        NotFound(<<>>, <<"PATH">>))

\* Windows builds: for i in [0, size): at ';' or NUL, probe current_path
\* (the characters from current_path to i) and move current_path past i
RECURSIVE pathLoop_windows(_, _, _, _, _, _)
pathLoop_windows(v, path_env, i, current_path, system, acc) ==
    IF i >= Len(path_env) THEN acc
    ELSE IF path_env[i + 1] = ";" \/ path_env[i + 1] = NUL
    THEN LET directory == SubSeq(path_env, current_path + 1, i)
             r == AndThen(acc, getExePathIfExists(v, directory, system))
         IN  IF r.ret # Empty THEN r
             ELSE pathLoop_windows(v, path_env, i + 1, i + 1, system, r)
    ELSE pathLoop_windows(v, path_env, i + 1, current_path, system, acc)

findQemuExecutablePath_windows(v, system) ==
    LET size == GetEnvironmentVariableW_size(pathEnv)
        written == Len(pathEnv.val)
    IN  IF size = 0 THEN NotFound(<<>>, <<"PATH">>)
        ELSE IF written > 0 /\ written < size
        THEN pathLoop_windows(v, pathEnv.val \o <<NUL>>, 0, 0, system,
                              NotFound(<<>>, <<"PATH", "PATH">>))
        ELSE NotFound(<<>>, <<"PATH", "PATH">>)

findQemuExecutablePath(v, system) ==
    IF IsWindows(v) THEN findQemuExecutablePath_windows(v, system)
    ELSE findQemuExecutablePath_posix(v, system)

----------------------------------------------------------------------------
(* The resolver: the platform-specific strategy *)

\* macOS build: the common installation paths, in order
commonPaths ==
    << <<"/", "u", "s", "r", "/", "l", "o", "c", "a", "l", "/", "b", "i", "n">>,
       <<"/", "o", "p", "t", "/", "h", "o", "m", "e", "b", "r", "e", "w", "/", "b", "i", "n">>,
       <<"/", "u", "s", "r", "/", "l", "o", "c", "a", "l", "/", "C", "e",
          "l", "l", "a", "r", "/", "q", "e", "m", "u">>,
       <<"/", "o", "p", "t", "/", "h", "o", "m", "e", "b", "r", "e", "w",
          "/", "C", "e", "l", "l", "a", "r", "/", "q", "e", "m", "u">>,
       <<"/", "A", "p", "p", "l", "i", "c", "a", "t", "i", "o", "n", "s",
          "/", "Q", "E", "M", "U", ".", "a", "p", "p", "/", "C", "o", "n",
          "t", "e", "n", "t", "s", "/", "M", "a", "c", "O", "S">>,
       <<"/", "u", "s", "r", "/", "b", "i", "n">>,
       <<"/", "o", "p", "t", "/", "q", "e", "m", "u", "/", "b", "i", "n">> >>

RECURSIVE commonLoop(_, _, _, _)
commonLoop(v, k, system, acc) ==
    IF k > Len(commonPaths) THEN acc
    ELSE LET r == AndThen(acc, getExePathIfExists(v, commonPaths[k], system))
         IN  IF r.ret # Empty THEN r ELSE commonLoop(v, k + 1, system, r)

\* (the use of the list is logged among the reads, as "commonPaths")
findQemuExecutableCommon(v, system) ==
    commonLoop(v, 1, system, NotFound(<<>>, <<"commonPaths">>))

\* Windows builds: HKLM\SOFTWARE\QEMU\Install_Dir, then one probe
findQemuExecutableRegistry(v, system) ==
    IF ~installDir.set THEN NotFound(<<>>, <<"Install_Dir">>)
    ELSE AndThen(NotFound(<<>>, <<"Install_Dir">>),
                 getExePathIfExists(v, c_str(installDir.val), system))

\* builds with a third strategy: every build but the Linux one
HasPlatformStrategy(v) == v # "linux"

findQemuExecutablePlatform(v, system) ==
    IF v = "macos" THEN findQemuExecutableCommon(v, system)
    ELSE findQemuExecutableRegistry(v, system)

----------------------------------------------------------------------------
(* The resolver: the strategies in order *)

\* the free function of the Linux build: QEMU_ROOT, then PATH
findQemuExecutable_linux(system) ==
    LET qemu_env == findQemuExecutableEnv("linux", system)
    IN  IF qemu_env.ret # Empty THEN qemu_env
        ELSE AndThen(qemu_env, findQemuExecutablePath("linux", system))

\* the free function of the first Windows build: QEMU_ROOT, PATH, registry
findQemuExecutable_windows_v1(system) ==
    LET v == "windows_v1"
        qemu_env == findQemuExecutableEnv(v, system)
        path_path == AndThen(qemu_env, findQemuExecutablePath(v, system))
        registry_path ==
            AndThen(path_path, findQemuExecutableRegistry(v, system))
    IN  IF qemu_env.ret # Empty
        THEN Res(windowsToStdString(qemu_env.ret), qemu_env.probes, qemu_env.reads)
        ELSE IF path_path.ret # Empty
        THEN Res(windowsToStdString(path_path.ret), path_path.probes, path_path.reads)
        ELSE IF registry_path.ret # Empty
        THEN Res(windowsToStdString(registry_path.ret),
                 registry_path.probes, registry_path.reads)
        ELSE registry_path

\* (mutant) the common locations are searched before PATH
Impl_findQemuExecutable_macos_commonFirst(system) ==
    LET v == "macos"
        envPath == findQemuExecutableEnv(v, system)
        commonPath == AndThen(envPath, findQemuExecutableCommon(v, system))
        pathExe == AndThen(commonPath, findQemuExecutablePath(v, system))
    IN  IF system = Empty THEN NotFound(<<>>, <<>>)
        ELSE IF envPath.ret # Empty THEN envPath
        ELSE IF commonPath.ret # Empty THEN commonPath
        ELSE pathExe

\* Launcher::Impl::findQemuExecutable of the macOS build: the value left in
\* mQemuPath; the system name is checked first
Impl_findQemuExecutable_macos(system) ==
    LET v == "macos"
        envPath == findQemuExecutableEnv(v, system)
        pathExe == AndThen(envPath, findQemuExecutablePath(v, system))
        commonPath == AndThen(pathExe, findQemuExecutableCommon(v, system))
    IN  IF system = Empty THEN NotFound(<<>>, <<>>)
        ELSE IF envPath.ret # Empty THEN envPath
        ELSE IF pathExe.ret # Empty THEN pathExe
        ELSE commonPath

\* Launcher::Impl::findQemuExecutable of the Windows build
Impl_findQemuExecutable_windows(system) ==
    LET v == "windows"
        e == findQemuExecutableEnv(v, system)
        p == AndThen(e, findQemuExecutablePath(v, system))
        g == AndThen(p, findQemuExecutableRegistry(v, system))
    IN  IF system = Empty THEN NotFound(<<>>, <<>>)
        ELSE IF e.ret # Empty THEN Res(windowsToStdString(e.ret), e.probes, e.reads)
        ELSE IF p.ret # Empty THEN Res(windowsToStdString(p.ret), p.probes, p.reads)
        ELSE IF g.ret # Empty THEN Res(windowsToStdString(g.ret), g.probes, g.reads)
        ELSE g

\* the free function findQemuExecutable of the builds that have one
HasFreeResolver(v) == IsGeneric(v)
findQemuExecutable(v, system) ==
    IF v = "linux" THEN findQemuExecutable_linux(system)
    ELSE findQemuExecutable_windows_v1(system)

\* Launcher::Launcher(system): what the constructor leaves in mQemuPath
Launcher_ctor(v, system) ==
    CASE v = "macos" -> Impl_findQemuExecutable_macos(system)
      [] v = "windows" -> Impl_findQemuExecutable_windows(system)
      [] OTHER -> findQemuExecutable(v, system)

----------------------------------------------------------------------------
(* The inputs the model draws from *)

DirR == <<"/", "r">>
DirP == <<"/", "p">>
\* a relative directory name
DirQ == <<"q">>
DirW == <<"/", "w">>
Sys == <<"s">>
\* a system name that leads out of the directory it is looked for in
SysUp == <<".", ".", "/", "s">>
Systems == {Empty, Sys}
SystemsUp == Systems \cup {SysUp}

\* the separator of PATH and the separator of a directory and a file name
PathSep(v) == IF IsWindows(v) THEN ";" ELSE ":"
DirSep(v) == IF IsWindows(v) THEN BACKSLASH ELSE SLASH

SegChoices == {Empty, DirP, DirQ}
SegLists == UNION {[1..n -> SegChoices] : n \in 1..MaxSegs}
PathValues(v) == {JoinSegs(s, PathSep(v)) : s \in SegLists}

\* the directories a file may lie in, and the names it may have
PlatformDirs(v) ==
    IF v = "macos" THEN {commonPaths[2]}
    ELSE IF IsWindows(v) THEN {DirW} ELSE {}
FileDirs(v) == {DirR, DirP, DirQ} \cup PlatformDirs(v)
\* the name of the executable on the platform, and the same name with the
\* extension of the other platform family
TargetName(v) == Sys \o (IF IsWindows(v) THEN EXE ELSE Empty)
OtherName(v) == Sys \o (IF IsWindows(v) THEN Empty ELSE EXE)
\* a file in the root directory, which is none of the directories searched
RootFiles(v) == {SLASH \o TargetName(v)}
\* the executable in any of the directories, the other name under QEMU_ROOT
Candidates(v) ==
    {d \o DirSep(v) \o TargetName(v) : d \in FileDirs(v)}
        \cup {DirR \o DirSep(v) \o OtherName(v)} \cup RootFiles(v)

NoCall == [op |-> "none", system |-> Empty, directory |-> Empty,
           ret |-> Empty, probes |-> <<>>, reads |-> <<>>]
Call(op, system, directory, r) ==
    [op |-> op, system |-> system, directory |-> directory,
     ret |-> r.ret, probes |-> r.probes, reads |-> r.reads]

NoPipe == <<-1, -1>>
NoEvent ==
    [op |-> "none", pathSet |-> FALSE, pathExists |-> FALSE, biosSet |-> FALSE,
     biosExists |-> FALSE, ret |-> FALSE, returned |-> FALSE, entered |-> FALSE,
     pipes |-> 0, spawns |-> 0, made |-> 0, callbacks |-> 0,
     reaped |-> 0, calls |-> <<>>, arg |-> <<>>, started |-> FALSE,
     argv |-> <<>>, childEnds |-> <<>>, connect |-> "none"]

\* the threads of the caller, and a thread that has made no call
Threads == {1, 2}
NoThread ==
    [pc |-> "idle", k |-> 0, op |-> "none", ret |-> FALSE,
     sig |-> <<>>, waited |-> <<>>, closed |-> <<>>]

\* the Launcher's members as their initializers leave them
FreshLauncher ==
    /\ mBiosFile = Empty
    /\ mArguments = <<>>
    /\ mQemuPid = -1
    /\ mQemuStdin = "null"
    /\ mStdInPipe = NoPipe
    /\ mStdOutPipe = NoPipe
    /\ mStdErrPipe = NoPipe
    /\ handles = {}
    /\ children = <<>>
    /\ nStarts = 0
    /\ pc = "idle"
    /\ event = NoEvent
    /\ registered = {}
    /\ invoked = <<>>
    /\ produced = <<>>
    /\ thr = [t \in Threads |-> NoThread]

\* any environment within the bounds, and no call made yet
InitResolver ==
    /\ variant \in Variants
    /\ qemuRoot \in {Unset, EnvVal(Empty), EnvVal(DirR)}
    /\ pathEnv \in {Unset} \cup {EnvVal(p) : p \in PathValues(variant)}
    /\ installDir \in IF IsWindows(variant) THEN {Unset, EnvVal(DirW)} ELSE {Unset}
    /\ files \in {F \in SUBSET Candidates(variant) : Cardinality(F) <= MaxFiles}
    /\ xfiles \in IF IsPosix(variant) THEN SUBSET files ELSE {files}
    /\ last = NoCall
    /\ mQemuPath = Empty
    /\ FreshLauncher

----------------------------------------------------------------------------
(* Calls of the resolver, each recorded in last *)

CallGetExePathIfExists(directory, system) ==
    /\ last.op = "none"
    /\ last' = Call("getExePathIfExists", system, directory,
                    getExePathIfExists(variant, directory, system))
    /\ UNCHANGED <<envVars, thr, cbVars, cfgVars, sessVars>>

CallFindQemuExecutableEnv(system) ==
    /\ last.op = "none"
    /\ last' = Call("findQemuExecutableEnv", system, Empty,
                    findQemuExecutableEnv(variant, system))
    /\ UNCHANGED <<envVars, thr, cbVars, cfgVars, sessVars>>

CallFindQemuExecutablePath(system) ==
    /\ last.op = "none"
    /\ last' = Call("findQemuExecutablePath", system, Empty,
                    findQemuExecutablePath(variant, system))
    /\ UNCHANGED <<envVars, thr, cbVars, cfgVars, sessVars>>

CallFindQemuExecutablePlatform(system) ==
    /\ last.op = "none"
    /\ HasPlatformStrategy(variant)
    /\ last' = Call("findQemuExecutablePlatform", system, Empty,
                    findQemuExecutablePlatform(variant, system))
    /\ UNCHANGED <<envVars, thr, cbVars, cfgVars, sessVars>>

CallFindQemuExecutable(system) ==
    /\ last.op = "none"
    /\ HasFreeResolver(variant)
    /\ last' = Call("findQemuExecutable", system, Empty,
                    findQemuExecutable(variant, system))
    /\ UNCHANGED <<envVars, thr, cbVars, cfgVars, sessVars>>

\* Launcher::Launcher(system)
Construct(system) ==
    /\ last.op = "none"
    /\ last' = Call("Launcher", system, Empty, Launcher_ctor(variant, system))
    /\ mQemuPath' = Launcher_ctor(variant, system).ret
    /\ UNCHANGED <<envVars, thr, cbVars, mBiosFile, mArguments, sessVars>>

NextResolver ==
    \/ \E s \in SystemsUp : CallGetExePathIfExists(DirR, s)
    \/ \E s \in Systems : CallFindQemuExecutableEnv(s)
    \/ \E s \in Systems : CallFindQemuExecutablePath(s)
    \/ \E s \in Systems : CallFindQemuExecutablePlatform(s)
    \/ \E s \in Systems : CallFindQemuExecutable(s)
    \/ \E s \in SystemsUp : Construct(s)

SpecResolver == InitResolver /\ [][NextResolver]_vars

----------------------------------------------------------------------------
(* Configuration: setQemuPath, setBios, addArgument *)

\* (mutant) addArgument with the new value put in front
AddArgument_front(arg) ==
    /\ pc = "idle"
    /\ Len(mArguments) < MaxArgs
    /\ mArguments' = <<arg>> \o mArguments
    /\ event' = [NoEvent EXCEPT !.op = "addArgument", !.arg = arg,
                                !.returned = TRUE, !.started = event.started]
    /\ UNCHANGED <<envVars, thr, cbVars, last, mQemuPath, mBiosFile, sessState>>

\* what a setter or a callback registration records: its name and argument
Configured(op, arg) ==
    [NoEvent EXCEPT !.op = op, !.arg = arg, !.returned = TRUE,
                    !.started = event.started]

SetQemuPath(path) ==
    /\ pc = "idle"
    /\ mQemuPath' = path
    /\ event' = Configured("setQemuPath", path)
    /\ UNCHANGED <<envVars, thr, cbVars, last, mBiosFile, mArguments, sessState>>

SetBios(bios) ==
    /\ pc = "idle"
    /\ mBiosFile' = bios
    /\ event' = Configured("setBios", bios)
    /\ UNCHANGED <<envVars, thr, cbVars, last, mQemuPath, mArguments, sessState>>

AddArgument(arg) ==
    /\ pc = "idle"
    /\ Len(mArguments) < MaxArgs
    /\ mArguments' = Append(mArguments, arg)
    /\ event' = Configured("addArgument", arg)
    /\ UNCHANGED <<envVars, thr, cbVars, last, mQemuPath, mBiosFile, sessState>>

----------------------------------------------------------------------------
(* onStdOut, onStdErr, onSerial, onExit: the callback is stored *)

Callbacks == {"onStdOut", "onStdErr", "onSerial", "onExit"}

\* (mutant) a registration that also clears the argument list
Register_clearsArguments(cb) ==
    /\ pc = "idle"
    /\ registered' = registered \cup {cb}
    /\ event' = Configured(cb, <<>>)
    /\ mArguments' = <<>>
    /\ UNCHANGED <<envVars, thr, last, mQemuPath, mBiosFile, sessState, invoked,
                   produced>>

Register(cb) ==
    /\ pc = "idle"
    /\ registered' = registered \cup {cb}
    /\ event' = Configured(cb, <<>>)
    /\ UNCHANGED <<envVars, thr, last, cfgVars, sessState, invoked, produced>>

----------------------------------------------------------------------------
(* Launcher::start(): the checks made before the process is started *)

\* src/src/qemu_launcher.cpp: both set, both existing
StartChecks_generic ==
    /\ mQemuPath # Empty
    /\ exists(mQemuPath)
    /\ mBiosFile # Empty
    /\ exists(mBiosFile)

\* macOS build: both set
StartChecks_macos ==
    /\ mQemuPath # Empty
    /\ mBiosFile # Empty

\* Windows build: return false if (!mQemuPath.empty()), if (!mBiosFile.empty())
StartChecks_windows ==
    /\ ~(mQemuPath # Empty)
    /\ ~(mBiosFile # Empty)

StartChecks(v) ==
    CASE v = "macos" -> StartChecks_macos
      [] v = "windows" -> StartChecks_windows
      [] OTHER -> StartChecks_generic

\* the option that precedes the bios file
BIOS == <<"-", "b", "i", "o", "s">>
SPACE == <<" ">>

\* (mutant) the argument vector with the bios option after the arguments
CommandLine_macos_biosLast ==
    <<c_str(mQemuPath)>>
      \o [k \in DOMAIN mArguments |-> c_str(mArguments[k])]
      \o (IF mBiosFile # Empty THEN <<BIOS, c_str(mBiosFile)>> ELSE <<>>)

\* macOS Impl::start(), in the child: the vector handed to execv
CommandLine_macos ==
    <<c_str(mQemuPath)>>
      \o (IF mBiosFile # Empty THEN <<BIOS, c_str(mBiosFile)>> ELSE <<>>)
      \o [k \in DOMAIN mArguments |-> c_str(mArguments[k])]

\* commandLine += " " + arg, for the arguments from the k-th on
RECURSIVE AppendArguments(_, _)
AppendArguments(line, k) ==
    IF k > Len(mArguments) THEN line
    ELSE AppendArguments(line \o SPACE \o mArguments[k], k + 1)

\* Windows Impl::start(): the one string handed to CreateProcessW
CommandLine_windows ==
    <<stdStringToWindows(
          AppendArguments(mQemuPath \o SPACE \o BIOS \o SPACE \o mBiosFile, 1))>>

CommandLine(v) ==
    IF v = "windows" THEN CommandLine_windows ELSE CommandLine_macos

\* macOS Impl::start(), in the child: dup2 of mStdInPipe[0], mStdOutPipe[1],
\* mStdErrPipe[1] onto descriptors 0, 1 and 2
ChildEnds_macos == <<"stdin_r", "stdout_w", "stderr_w">>

\* Windows Impl::start(): si.hStdInput = stdInWr, si.hStdOutput = stdOutRd,
\* si.hStdError = stdErrRd
ChildEnds_windows == <<"stdin_w", "stdout_r", "stderr_r">>

ChildEnds(v) == IF v = "windows" THEN ChildEnds_windows ELSE ChildEnds_macos

\* what a start() call records: its inputs, its result, whether it returned,
\* whether the checks let it through, the pipes and channels it created, the
\* fork() or CreateProcessW() calls it made, the children these created, the
\* callbacks it invoked; started: whether this or an earlier start() of the
\* Launcher returned true; argv: the command line it built for the child;
\* childEnds: the pipe ends it made the child's stdin, stdout and stderr
StartRecord(ret, entered, pipes, spawns, made, returned) ==
    [op |-> "start",
     pathSet |-> mQemuPath # Empty, pathExists |-> exists(mQemuPath),
     biosSet |-> mBiosFile # Empty, biosExists |-> exists(mBiosFile),
     ret |-> ret, returned |-> returned, entered |-> entered,
     pipes |-> pipes, spawns |-> spawns, made |-> made, callbacks |-> 0,
     reaped |-> 0, calls |-> <<>>, arg |-> <<>>,
     started |-> event.started \/ ret,
     argv |-> IF \/ variant = "macos" /\ made > 0
                 \/ variant = "windows" /\ spawns > 0
              THEN CommandLine(variant) ELSE <<>>,
     childEnds |-> IF \/ variant = "macos" /\ made > 0
                      \/ variant = "windows" /\ spawns > 0
                   THEN ChildEnds(variant) ELSE <<>>,
     connect |-> "none"]

----------------------------------------------------------------------------
(* Descriptors *)

FdLimit == 3 + 9 * MaxStarts
OpenFds == {h.fd : h \in handles}
\* the lowest descriptor not in use (0, 1 and 2 are the standard streams)
LowestFree(used) ==
    CHOOSE n \in 3..FdLimit : n \notin used /\ \A m \in 3..(n - 1) : m \in used
\* pipe(fds): fds[0] is the read end, fds[1] the write end
Pipe(used) == <<LowestFree(used), LowestFree(used \cup {LowestFree(used)})>>
Ends(p, rd, wr) == {[fd |-> p[1], kind |-> rd], [fd |-> p[2], kind |-> wr]}

\* the child a successful fork() or CreateProcessW() adds
NewChild == [pid |-> Len(children) + 1, st |-> "running"]

----------------------------------------------------------------------------
(* Launcher::Impl::start() of the macOS build *)

\* okPipes of the three pipe() calls succeed (3: all of them); forkOk: fork()
Impl_start_macos(okPipes, forkOk) ==
    LET pin == Pipe(OpenFds)
        hin == Ends(pin, "stdin_r", "stdin_w")
        pout == Pipe(OpenFds \cup {pin[1], pin[2]})
        hout == Ends(pout, "stdout_r", "stdout_w")
        perr == Pipe(OpenFds \cup {pin[1], pin[2], pout[1], pout[2]})
        herr == Ends(perr, "stderr_r", "stderr_w")
    IN  /\ nStarts' = nStarts + 1
        /\ pc' = "idle"
        /\ mStdInPipe' = IF okPipes >= 1 THEN pin ELSE mStdInPipe
        /\ mStdOutPipe' = IF okPipes >= 2 THEN pout ELSE mStdOutPipe
        /\ mStdErrPipe' = IF okPipes >= 3 THEN perr ELSE mStdErrPipe
        /\ IF okPipes < 3
           THEN \* a pipe() failed: return false, the earlier pipes stay open
                /\ handles' = handles \cup (IF okPipes >= 1 THEN hin ELSE {})
                                      \cup (IF okPipes >= 2 THEN hout ELSE {})
                /\ event' = StartRecord(FALSE, TRUE, okPipes, 0, 0, TRUE)
                /\ UNCHANGED <<mQemuPid, mQemuStdin, children>>
           ELSE IF ~forkOk
           THEN \* fork() == -1: return false, all six ends stay open
                /\ handles' = handles \cup hin \cup hout \cup herr
                /\ mQemuPid' = -1
                /\ event' = StartRecord(FALSE, TRUE, 3, 1, 0, TRUE)
                /\ UNCHANGED <<mQemuStdin, children>>
           ELSE \* parent: closes the child's ends; the three stdio_filebuf
                \* locals own the parent's ends and close them on return
                /\ handles' = handles
                /\ mQemuPid' = Len(children) + 1
                /\ mQemuStdin' = "stream"
                /\ children' = Append(children, NewChild)
                /\ event' = StartRecord(TRUE, TRUE, 3, 1, 1, TRUE)

----------------------------------------------------------------------------
(* Launcher::Impl::start() of the Windows build *)

SerialBusy == \E h \in handles : h.kind = "serial"

\* namedOk: CreateNamedPipeW; spawnOk: CreateProcessW, which needs the file;
\* connect: how ConnectNamedPipe ends: "connected" (the child connects while
\* the parent waits), "already" (it connected before the parent waits:
\* ERROR_PIPE_CONNECTED), "error" (it did not connect, another error), "never"
\* (it does not connect and the call does not return)
Impl_start_windows(namedOk, spawnOk, connect) ==
    LET hs == LowestFree(OpenFds)
        used1 == OpenFds \cup {hs}
        pin == Pipe(used1)
        pout == Pipe(used1 \cup {pin[1], pin[2]})
        perr == Pipe(used1 \cup {pin[1], pin[2], pout[1], pout[2]})
        all == {[fd |-> hs, kind |-> "serial"]}
                 \cup Ends(pin, "stdin_r", "stdin_w")
                 \cup Ends(pout, "stdout_r", "stdout_w")
                 \cup Ends(perr, "stderr_r", "stderr_w")
        used2 == used1 \cup {pin[1], pin[2], pout[1], pout[2], perr[1], perr[2]}
        hproc == LowestFree(used2)
        pi == {[fd |-> hproc, kind |-> "process"],
               [fd |-> LowestFree(used2 \cup {hproc}), kind |-> "thread"]}
        parentEnds == {h \in all : h.kind \in {"serial", "stdin_w", "stdout_r", "stderr_r"}}
    IN  /\ nStarts' = nStarts + 1
        /\ UNCHANGED <<mQemuPid, pipeVars>>
        /\ IF SerialBusy \/ ~namedOk
           THEN \* INVALID_HANDLE_VALUE: return false
                /\ event' = StartRecord(FALSE, TRUE, 0, 0, 0, TRUE)
                /\ pc' = "idle"
                /\ UNCHANGED <<handles, mQemuStdin, children>>
           ELSE IF ~(spawnOk /\ exists(mQemuPath))
           THEN \* CreateProcessW failed: return false, seven handles stay open
                /\ handles' = handles \cup all
                /\ event' = StartRecord(FALSE, TRUE, 4, 1, 0, TRUE)
                /\ pc' = "idle"
                /\ UNCHANGED <<mQemuStdin, children>>
           ELSE \* the child runs; CloseHandle of stdInRd, stdOutWr, stdErrWr
                /\ handles' = handles \cup parentEnds \cup pi
                /\ mQemuStdin' = "stream"
                /\ children' = Append(children, NewChild)
                /\ IF connect = "connected"
                   THEN /\ event' = [StartRecord(TRUE, TRUE, 4, 1, 1, TRUE)
                                        EXCEPT !.connect = connect]
                        /\ pc' = "idle"
                   ELSE IF connect = "never"
                   THEN \* ConnectNamedPipe(hSerialPipe, nullptr) does not return
                        /\ event' = [StartRecord(FALSE, TRUE, 4, 1, 1, FALSE)
                                        EXCEPT !.connect = connect]
                        /\ pc' = "in_start"
                   ELSE \* ERROR_PIPE_CONNECTED or another error: stop(); false
                        /\ event' = [StartRecord(FALSE, TRUE, 4, 1, 1, TRUE)
                                        EXCEPT !.connect = connect]
                        /\ pc' = "idle"

----------------------------------------------------------------------------
(* Launcher::start() *)

\* start() returns false before anything is done
StartRejected ==
    /\ event' = StartRecord(FALSE, FALSE, 0, 0, 0, TRUE)
    /\ UNCHANGED <<mQemuPid, mQemuStdin, pipeVars, handles, children, nStarts, pc>>

\* src/src/qemu_launcher.cpp: the checks, then "return true" (nothing started)
Start_generic ==
    /\ pc = "idle"
    /\ IsGeneric(variant)
    /\ IF StartChecks(variant)
       THEN /\ event' = StartRecord(TRUE, TRUE, 0, 0, 0, TRUE)
            /\ UNCHANGED <<mQemuPid, mQemuStdin, pipeVars, handles, children,
                           nStarts, pc>>
       ELSE StartRejected
    /\ UNCHANGED <<envVars, thr, cbVars, last, cfgVars>>

Start_macos ==
    /\ pc = "idle"
    /\ variant = "macos"
    /\ IF StartChecks(variant)
       THEN /\ nStarts < MaxStarts
            /\ \E okPipes \in 0..3, forkOk \in BOOLEAN :
                   Impl_start_macos(okPipes, forkOk)
       ELSE StartRejected
    /\ UNCHANGED <<envVars, thr, cbVars, last, cfgVars>>

Start_windows ==
    /\ pc = "idle"
    /\ variant = "windows"
    /\ IF StartChecks(variant)
       THEN /\ nStarts < MaxStarts
            /\ \E namedOk \in BOOLEAN, spawnOk \in BOOLEAN,
                  connect \in {"connected", "already", "error", "never"} :
                   Impl_start_windows(namedOk, spawnOk, connect)
       ELSE StartRejected
    /\ UNCHANGED <<envVars, thr, cbVars, last, cfgVars>>

----------------------------------------------------------------------------
(* stop(), terminate(), writeStdIn() and the child *)

Done(op, ret) ==
    [NoEvent EXCEPT !.op = op, !.ret = ret, !.returned = TRUE,
                    !.started = event.started]

\* src/src/qemu_launcher.cpp and the Windows Impl: "return true"
StopOrTerminate_stub(op) ==
    /\ pc = "idle"
    /\ variant # "macos"
    /\ event' = Done(op, TRUE)
    /\ UNCHANGED <<envVars, thr, cbVars, last, cfgVars, mQemuPid, mQemuStdin, pipeVars,
                   handles, children, nStarts, pc>>

\* the index in children of the process mQemuPid names
Current == mQemuPid

\* after waitpid: mQemuPid = -1, and the three descriptors are closed by
\* number; the call that did it records e and goes on at p
ReapedAs_macos(e, p) ==
    /\ children' = [children EXCEPT ![Current].st = "reaped"]
    /\ mQemuPid' = -1
    /\ handles' = {h \in handles :
                     h.fd \notin {mStdInPipe[2], mStdOutPipe[1], mStdErrPipe[1]}}
    /\ mStdInPipe' = <<mStdInPipe[1], -1>>
    /\ mStdOutPipe' = <<-1, mStdOutPipe[2]>>
    /\ mStdErrPipe' = <<-1, mStdErrPipe[2]>>
    /\ pc' = p
    /\ event' = e

\* stop() or terminate() returning true; reaped is the child waited for
Reaped_macos(op) ==
    ReapedAs_macos([Done(op, TRUE) EXCEPT !.reaped = Current], "idle")

\* macOS Impl::stop(): SIGTERM and a waitpid with no time limit; a running
\* child either exits on the signal or ignores it
Stop_macos ==
    /\ pc = "idle"
    /\ variant = "macos"
    /\ IF mQemuPid > 0
       THEN \/ Reaped_macos("stop")
            \/ /\ children[Current].st = "running"
               /\ pc' = "in_stop"
               /\ event' = [Done("stop", FALSE) EXCEPT !.returned = FALSE]
               /\ UNCHANGED <<mQemuPid, pipeVars, handles, children>>
       ELSE /\ event' = Done("stop", FALSE)
            /\ UNCHANGED <<mQemuPid, pipeVars, handles, children, pc>>
    /\ UNCHANGED <<envVars, thr, cbVars, last, cfgVars, mQemuStdin, nStarts>>

\* the waitpid of a blocked stop() returns once the child has exited
Stop_macos_resume ==
    /\ pc = "in_stop"
    /\ children[Current].st = "zombie"
    /\ Reaped_macos("stop")
    /\ UNCHANGED <<envVars, thr, cbVars, last, cfgVars, mQemuStdin, nStarts>>

\* macOS Impl::terminate(): SIGKILL and waitpid
Terminate_macos ==
    /\ pc = "idle"
    /\ variant = "macos"
    /\ IF mQemuPid > 0
       THEN Reaped_macos("terminate")
       ELSE /\ event' = Done("terminate", FALSE)
            /\ UNCHANGED <<mQemuPid, pipeVars, handles, children, pc>>
    /\ UNCHANGED <<envVars, thr, cbVars, last, cfgVars, mQemuStdin, nStarts>>

\* (mutant) writeStdIn(msg) of the Impl builds without the test of mQemuStdin
WriteStdIn_unguarded ==
    /\ pc = "idle"
    /\ event' = Done("writeStdIn", ~IsGeneric(variant))
    /\ UNCHANGED <<envVars, thr, cbVars, last, cfgVars, mQemuPid, mQemuStdin, pipeVars,
                   handles, children, nStarts, pc>>

\* writeStdIn(msg): the Impl builds write when mQemuStdin is not null; ret
\* records whether a write to the stream was made. The stream start() made
\* is built on a stdio_filebuf local to start(), destroyed when start()
\* returned: the write goes through a dangling buffer to a closed descriptor,
\* and either returns with the bytes lost or ends the process
WriteStdIn ==
    /\ pc = "idle"
    /\ IF ~IsGeneric(variant) /\ mQemuStdin # "null"
       THEN \/ event' = Done("writeStdIn", TRUE) /\ pc' = "idle"
            \/ /\ event' = [Done("writeStdIn", TRUE) EXCEPT !.returned = FALSE]
               /\ pc' = "crashed"
       ELSE event' = Done("writeStdIn", FALSE) /\ pc' = "idle"
    /\ UNCHANGED <<envVars, thr, cbVars, last, cfgVars, mQemuPid, mQemuStdin, pipeVars,
                   handles, children, nStarts>>

\* Launcher::~Launcher() of src/src/qemu_launcher.cpp: "stop();", and of the
\* Windows build: "if (!pImpl->stop()) pImpl->terminate();" with a stop() that
\* returns true. ret is what stop() returned, calls the members called
Destroy_stub ==
    /\ pc = "idle"
    /\ variant # "macos"
    /\ event' = [Done("~Launcher", TRUE) EXCEPT !.calls = <<"stop">>]
    /\ pc' = "destroyed"
    /\ UNCHANGED <<envVars, thr, cbVars, last, cfgVars, mQemuPid, mQemuStdin, pipeVars,
                   handles, children, nStarts>>

\* (mutant) the macOS destructor without the call of terminate()
Destroy_macos_stopOnly ==
    /\ pc = "idle"
    /\ variant = "macos"
    /\ IF mQemuPid > 0
       THEN ReapedAs_macos([Done("~Launcher", TRUE) EXCEPT
                               !.reaped = Current, !.calls = <<"stop">>],
                           "destroyed")
       ELSE /\ event' = [Done("~Launcher", FALSE) EXCEPT !.calls = <<"stop">>]
            /\ pc' = "destroyed"
            /\ UNCHANGED <<mQemuPid, pipeVars, handles, children>>
    /\ UNCHANGED <<envVars, thr, cbVars, last, cfgVars, mQemuStdin, nStarts>>

\* Launcher::~Launcher() of the macOS build:
\* "if (!pImpl->stop()) pImpl->terminate();"
Destroy_macos ==
    /\ pc = "idle"
    /\ variant = "macos"
    /\ IF mQemuPid > 0
       THEN \* stop() as in Stop_macos: it reaps the child, or waits for it
            \/ ReapedAs_macos([Done("~Launcher", TRUE) EXCEPT
                                  !.reaped = Current, !.calls = <<"stop">>],
                              "destroyed")
            \/ /\ children[Current].st = "running"
               /\ pc' = "in_dtor"
               /\ event' = [Done("~Launcher", FALSE) EXCEPT
                               !.returned = FALSE, !.calls = <<"stop">>]
               /\ UNCHANGED <<mQemuPid, pipeVars, handles, children>>
       ELSE \* stop() returns false; terminate() finds mQemuPid <= 0 as well
            /\ event' = [Done("~Launcher", FALSE) EXCEPT
                            !.calls = <<"stop", "terminate">>]
            /\ pc' = "destroyed"
            /\ UNCHANGED <<mQemuPid, pipeVars, handles, children>>
    /\ UNCHANGED <<envVars, thr, cbVars, last, cfgVars, mQemuStdin, nStarts>>

\* the waitpid of the destructor's stop() returns once the child has exited
Destroy_macos_resume ==
    /\ pc = "in_dtor"
    /\ children[Current].st = "zombie"
    /\ ReapedAs_macos([Done("~Launcher", TRUE) EXCEPT
                          !.reaped = Current, !.calls = <<"stop">>],
                      "destroyed")
    /\ UNCHANGED <<envVars, thr, cbVars, last, cfgVars, mQemuStdin, nStarts>>

\* a running child writes a chunk to its stdout, its stderr or its serial port
Channels == {"stdout", "stderr", "serial"}

ChildWrites(i, ch) ==
    /\ children[i].st = "running"
    /\ Len(produced) < MaxChunks
    /\ produced' = Append(produced, [pid |-> i, ch |-> ch])
    /\ UNCHANGED <<envVars, thr, last, cfgVars, sessVars, registered, invoked>>

\* a running child exits by itself
ChildExit(i) ==
    /\ children[i].st = "running"
    /\ children' = [children EXCEPT ![i].st = "zombie"]
    /\ UNCHANGED <<envVars, thr, cbVars, last, cfgVars, mQemuPid, mQemuStdin, pipeVars,
                   handles, nStarts, pc, event>>

----------------------------------------------------------------------------
(* The Launcher after construction *)

BiosFile == <<"/", "b">>
MissingFile == <<"/", "m">>
Arg == <<"-", "m">>
Arg2 == <<"-", "S">>
\* the file the build's resolver is meant to find under DirR
ExePath(v) == DirR \o DirSep(v) \o Sys \o (IF IsWindows(v) THEN EXE ELSE Empty)
ExeFiles(v) == {ExePath(v), DirR \o DirSep(v) \o Sys \o EXE}
PathChoices(v) == {Empty, ExePath(v), MissingFile}
BiosChoices == {Empty, BiosFile, MissingFile}

Init ==
    /\ variant \in Variants
    /\ qemuRoot \in {Unset, EnvVal(DirR)}
    /\ pathEnv = Unset
    /\ installDir = Unset
    /\ files = ExeFiles(variant) \cup {BiosFile}
    /\ xfiles = ExeFiles(variant)
    /\ last = Call("Launcher", Sys, Empty, Launcher_ctor(variant, Sys))
    /\ mQemuPath = Launcher_ctor(variant, Sys).ret
    /\ FreshLauncher

Next ==
    \/ \E p \in PathChoices(variant) : SetQemuPath(p)
    \/ \E b \in BiosChoices : SetBios(b)
    \/ AddArgument(Arg)
    \/ Start_generic
    \/ Start_macos
    \/ Start_windows
    \/ \E op \in {"stop", "terminate"} : StopOrTerminate_stub(op)
    \/ Stop_macos
    \/ Stop_macos_resume
    \/ Terminate_macos
    \/ WriteStdIn
    \/ Register("onExit")
    \/ Destroy_stub
    \/ Destroy_macos
    \/ Destroy_macos_resume
    \/ \E i \in 1..Len(children) : ChildExit(i)

Spec == Init /\ [][Next]_vars

----------------------------------------------------------------------------
(* What the claims speak of *)

Range(s) == {s[i] : i \in DOMAIN s}

\* the target the resolver is to look for in a directory: <dir>/<systemId>,
\* with ".exe" on the Windows family only
TargetPath(v, directory, system) ==
    directory \o DirSep(v) \o system \o (IF IsWindows(v) THEN EXE ELSE Empty)
\* the directory holds the target: it exists and, on POSIX, is executable
TargetIn(v, directory, system) ==
    /\ TargetPath(v, directory, system) \in files
    /\ IsPosix(v) => TargetPath(v, directory, system) \in xfiles

\* the segments of a string between separators
RECURSIVE SplitOn(_, _)
SplitOn(str, ch) ==
    IF find(str, ch, 0) = npos THEN <<str>>
    ELSE <<substr(str, 0, find(str, ch, 0))>>
             \o SplitOn(substrFrom(str, find(str, ch, 0) + 1), ch)
PathDirs == IF pathEnv.set THEN SplitOn(pathEnv.val, PathSep(variant)) ELSE <<>>
PathHasTarget(system) ==
    \E i \in DOMAIN PathDirs : TargetIn(variant, PathDirs[i], system)
LeftmostPathDir(system) ==
    PathDirs[CHOOSE i \in DOMAIN PathDirs :
                 /\ TargetIn(variant, PathDirs[i], system)
                 /\ \A j \in 1..(i - 1) : ~TargetIn(variant, PathDirs[j], system)]
RootHasTarget(system) == qemuRoot.set /\ TargetIn(variant, qemuRoot.val, system)
PlatformLocations ==
    IF variant = "macos" THEN Range(commonPaths)
    ELSE IF IsWindows(variant) /\ installDir.set THEN {installDir.val} ELSE {}
PlatformHasTarget(system) ==
    \E d \in PlatformLocations : TargetIn(variant, d, system)
PlatformConsulted == {"Install_Dir", "commonPaths"} \cap Range(last.reads) # {}

\* the last call resolved a system name through all strategies
Resolved == last.op \in {"Launcher", "findQemuExecutable"}

----------------------------------------------------------------------------
(* Claims about start() *)

\* C1: in every Launcher build, start() with an empty executable path or an
\* empty bios file returns false before anything is attempted: the checks
\* stop it, no pipe or channel is created, nothing is spawned, no callback
\* is invoked.
C1_EmptyInputRejectedBeforeSpawn ==
    (event.op = "start" /\ (~event.pathSet \/ ~event.biosSet))
        => /\ event.returned /\ ~event.ret
           /\ ~event.entered
           /\ event.pipes = 0 /\ event.spawns = 0 /\ event.callbacks = 0

\* C2: in every Launcher build, start() with a non-empty executable path that
\* names no file, or a non-empty bios file that names no file, returns false
\* and spawns nothing.
C2_MissingFileRejected ==
    (event.op = "start"
       /\ \/ (event.pathSet /\ ~event.pathExists)
          \/ (event.biosSet /\ ~event.biosExists))
        => event.returned /\ ~event.ret /\ event.made = 0

\* C3: in every Launcher build, start() with an existing executable and an
\* existing bios file passes the checks, and returns true when the spawn and
\* the channels succeed (always, in the builds that spawn nothing).
C3_ValidInputsPass ==
    (event.op = "start" /\ event.pathSet /\ event.pathExists
       /\ event.biosSet /\ event.biosExists)
        => /\ event.entered
           /\ IsGeneric(variant) => (event.returned /\ event.ret)

----------------------------------------------------------------------------
(* Claims about the resolver *)

\* C4: for a non-empty system name, when the target exists under QEMU_ROOT
\* and under a PATH directory, the path under QEMU_ROOT is the result; and
\* PATH is read only when the QEMU_ROOT strategy found nothing.
C4_EnvBeforePath ==
    (Resolved /\ last.system # Empty)
        => /\ (RootHasTarget(last.system) /\ PathHasTarget(last.system))
                => c_str(last.ret) = TargetPath(variant, qemuRoot.val, last.system)
           /\ "PATH" \in Range(last.reads) => ~RootHasTarget(last.system)

\* C5: for a non-empty system name with nothing under QEMU_ROOT, when the
\* target exists in a PATH directory and in the platform-specific location
\* (registry Install_Dir, common macOS directories), the PATH copy is the
\* result; and the platform-specific strategy is used only when QEMU_ROOT and
\* PATH both hold no target.
C5_PathBeforePlatform ==
    (Resolved /\ last.system # Empty /\ HasPlatformStrategy(variant))
        => /\ (/\ ~RootHasTarget(last.system)
               /\ PathHasTarget(last.system)
               /\ PlatformHasTarget(last.system))
                => c_str(last.ret)
                       = TargetPath(variant, LeftmostPathDir(last.system), last.system)
           /\ PlatformConsulted
                => (~RootHasTarget(last.system) /\ ~PathHasTarget(last.system))

\* C5 witness: a build with a third strategy returned the PATH copy although
\* the platform-specific location holds the target too
C5_Witness ==
    /\ Resolved /\ last.system = Sys /\ HasPlatformStrategy(variant)
    /\ ~RootHasTarget(Sys) /\ PathHasTarget(Sys) /\ PlatformHasTarget(Sys)
    /\ c_str(last.ret) = TargetPath(variant, LeftmostPathDir(Sys), Sys)
    /\ ~PlatformConsulted

\* C6: findQemuExecutablePath returns the path under the leftmost PATH
\* directory that holds the target, whichever directories without it come
\* before or after (the last or only one included).
C6_LeftmostPathDirWins ==
    (last.op = "findQemuExecutablePath" /\ PathHasTarget(last.system))
        => c_str(last.ret)
               = TargetPath(variant, LeftmostPathDir(last.system), last.system)

C8_PosixProbeHasNoExtension ==
    (last.op = "getExePathIfExists" /\ IsPosix(variant))
        => LET target == last.directory \o SLASH \o last.system
           IN  /\ last.ret # Empty => last.ret = target
               /\ (exists(target) /\ access_X_OK(target)) => last.ret = target
               /\ ~exists(target) => last.ret = Empty

\* C9: on the POSIX builds a non-empty result of any resolver function names
\* a file that exists and is executable.
C9_PosixResultIsExecutable ==
    (last.op # "none" /\ IsPosix(variant) /\ last.ret # Empty)
        => (exists(last.ret) /\ access_X_OK(last.ret))

\* C10: for an empty system name the free function findQemuExecutable and the
\* constructor return the empty string at once: no environment variable or
\* registry value is read and no path is probed.
C10_EmptySystemTouchesNothing ==
    (Resolved /\ last.system = Empty)
        => (last.ret = Empty /\ last.reads = <<>> /\ last.probes = <<>>)

\* the paths a probe of the system name in an empty directory string gives:
\* the name in the root directory, or in the current directory
EmptyDirProbes(system) ==
    {sep \o system \o ext : sep \in {SLASH, BACKSLASH, Empty}, ext \in {Empty, EXE}}
OnlyEmptySegments == pathEnv.set /\ \A i \in DOMAIN PathDirs : PathDirs[i] = Empty

\* C11: an empty directory string is skipped: for a non-empty system name no
\* strategy probes the name in the root or in the current directory because
\* of an empty PATH segment or an empty QEMU_ROOT, and with QEMU_ROOT empty and
\* PATH made of empty segments only the QEMU_ROOT and PATH strategies return
\* the empty string.
C11_EmptyDirectorySkipped ==
    (last.op \in {"findQemuExecutableEnv", "findQemuExecutablePath"}
       /\ last.system # Empty)
        => /\ \A i \in DOMAIN last.probes :
                  c_str(last.probes[i]) \notin EmptyDirProbes(last.system)
           /\ (qemuRoot.set /\ qemuRoot.val = Empty /\ OnlyEmptySegments)
                => last.ret = Empty

\* a path is absolute when it starts at the root
IsAbsolute(path) == path # Empty /\ Head(path) = "/"

\* C12: the result of every resolver function is the empty string or an
\* absolute path of an existing file, whatever QEMU_ROOT and PATH hold,
\* relative directory names included.
C12_ResultAbsoluteExisting ==
    (last.op # "none" /\ last.ret # Empty)
        => (IsAbsolute(last.ret) /\ exists(last.ret))

\* the system name has a path separator or a ".." component
HasPathComponents(system) ==
    \/ \E i \in DOMAIN system : system[i] \in {"/", "\\"}
    \/ HasDotDot(system)

\* C13: a system name with a path separator or a ".." component never
\* resolves: the result of every resolver function is the empty string.
C13_TraversalNeverResolves ==
    (last.op # "none" /\ HasPathComponents(last.system)) => last.ret = Empty

----------------------------------------------------------------------------
(* Claims about the session *)

\* the children started by this Launcher that run
RunningChildren == {i \in DOMAIN children : children[i].st = "running"}
\* the parent's ends of the session's pipes that are open
ParentEnds == {h \in handles : h.kind \in {"stdin_w", "stdout_r", "stderr_r"}}

\* C14: whatever start(), stop() and terminate() calls are made, a Launcher
\* never has more than one running child, and the pid it records is the pid
\* of that child.
C14_AtMostOneChild ==
    /\ Cardinality(RunningChildren) <= 1
    /\ \A i \in RunningChildren : mQemuPid = i

\* C15: the destructor calls stop() first, and calls terminate() when stop()
\* returned false.
C15_DestructorStopThenTerminate ==
    event.op = "~Launcher"
        => /\ Len(event.calls) >= 1 /\ event.calls[1] = "stop"
           /\ (event.returned /\ ~event.ret) => event.calls = <<"stop", "terminate">>

\* C15 witness: a Launcher with a running child was destroyed, stop() was
\* called and returned false, and terminate() was called after it
C15_Witness ==
    /\ event.op = "~Launcher" /\ event.returned /\ ~event.ret
    /\ event.calls = <<"stop", "terminate">>
    /\ RunningChildren # {}

\* C16: stop() returns true only when a child of the session was waited for
\* and is reaped when stop() returns.
C16_StopTrueOnlyIfReaped ==
    (event.op = "stop" /\ event.returned /\ event.ret)
        => /\ event.reaped \in DOMAIN children
           /\ children[event.reaped].st = "reaped"

\* the waitpid of a stop() returns when the child has exited; nothing makes a
\* child exit
Fairness == WF_vars(Stop_macos_resume) /\ WF_vars(Destroy_macos_resume)
SpecLive == Init /\ [][Next]_vars /\ Fairness

\* C17: a stop() that is waiting for a child which does not exit on the
\* polite signal returns all the same.
C17_StopAlwaysReturns == (pc = "in_stop") ~> (pc # "in_stop")

\* C18: when stop() has returned after waiting for the child of a running
\* session, no child is recorded; and a stop() called right after it returns
\* what the first one returned.
C18_StopTwice ==
    /\ []((event.op = "stop" /\ event.returned /\ event.reaped > 0)
             => mQemuPid = -1)
    /\ [][(event.op = "stop" /\ event.returned /\ event.reaped > 0
             /\ event'.op = "stop" /\ event' # event)
            => event'.ret = event.ret]_vars

\* C19: a terminate() called while a child of the Launcher runs returns true,
\* and when it has returned no child runs, none is recorded and the parent's
\* ends of the pipes are closed.
C19_TerminateReaps ==
    [][(event'.op = "terminate" /\ event' # event /\ RunningChildren # {})
         => /\ event'.returned /\ event'.ret
            /\ \A i \in DOMAIN children' : children'[i].st # "running"
            /\ mQemuPid' = -1
            /\ {h \in handles' : h.kind \in {"stdin_w", "stdout_r", "stderr_r"}} = {}]_vars

\* C20: once a stop() or terminate() has ended the session (a child is
\* reaped, none is recorded), writeStdIn writes nothing (the ret of a
\* writeStdIn event tells whether it wrote to the stream).
C20_WriteAfterEndIsNoOp ==
    (event.op = "writeStdIn" /\ mQemuPid = -1
       /\ \E i \in DOMAIN children : children[i].st = "reaped")
        => ~event.ret


----------------------------------------------------------------------------
\* C21: while no start() of the Launcher has returned true (none was called,
\* or every one returned false), writeStdIn() makes no write to the child's
\* stdin stream.
C21_WriteBeforeSessionIsNoOp ==
    (event.op = "writeStdIn" /\ ~event.started) => ~event.ret

\* writeStdIn() after a start() that got as far as Impl::start() and failed
C21_Witness ==
    /\ event.op = "writeStdIn"
    /\ ~event.started
    /\ nStarts >= 1
    /\ ~event.ret


\* C22: a writeStdIn() that directly follows a start() that returned true
\* writes to the child's stdin, and the write end of the stdin pipe is still
\* open in the parent.
C22_WriteInSessionReachesPipe ==
    [][(event.op = "start" /\ event.ret /\ event'.op = "writeStdIn")
         => /\ event'.ret
            /\ event'.returned
            /\ \E h \in handles' : h.kind = "stdin_w"]_vars


----------------------------------------------------------------------------
(* A caller that registers callbacks, sets the bios file, runs sessions and *)
(* watches what the children write and when they exit                      *)

NextCallbacks ==
    \/ \E cb \in Callbacks : Register(cb)
    \/ SetBios(BiosFile)
    \/ Start_generic
    \/ Start_macos
    \/ Start_windows
    \/ \E op \in {"stop", "terminate"} : StopOrTerminate_stub(op)
    \/ Stop_macos
    \/ Stop_macos_resume
    \/ Terminate_macos
    \/ \E i \in 1..Len(children), ch \in Channels : ChildWrites(i, ch)
    \/ \E i \in 1..Len(children) : ChildExit(i)

SpecCallbacks == Init /\ [][NextCallbacks]_vars /\ Fairness

\* child i was spawned and runs
Runs(i) == i <= Len(children) /\ children[i].st = "running"
\* the calls of onExit made for child i
ExitCalls(i) == {k \in DOMAIN invoked : invoked[k].cb = "onExit" /\ invoked[k].pid = i}

\* C23: a child that runs while an onExit callback is stored either runs for
\* ever or, having exited, has onExit invoked for it; and onExit is never
\* invoked twice for one child, nor for a child that was not spawned.
C23_ExitReportedOnce ==
    /\ \A i \in 1..MaxStarts :
          (Runs(i) /\ "onExit" \in registered)
             ~> ([]Runs(i) \/ Cardinality(ExitCalls(i)) = 1)
    /\ [](\A k \in DOMAIN invoked :
             invoked[k].cb = "onExit" =>
                 /\ invoked[k].pid \in DOMAIN children
                 /\ Cardinality(ExitCalls(invoked[k].pid)) = 1)


\* the callback a channel's chunks go to
CallbackOf(ch) ==
    CASE ch = "stdout" -> "onStdOut"
      [] ch = "stderr" -> "onStdErr"
      [] ch = "serial" -> "onSerial"
\* the chunks (by their place in produced) written to channel ch, in order
ProducedOn(ch) ==
    SelectSeq([k \in DOMAIN produced |-> k], LAMBDA k : produced[k].ch = ch)
\* the chunks handed to the callback of channel ch, in order
DeliveredOn(ch) ==
    LET sel == SelectSeq(invoked, LAMBDA r : r.cb = CallbackOf(ch))
    IN  [k \in DOMAIN sel |-> sel[k].chunk]
IsPrefix(a, b) == Len(a) <= Len(b) /\ SubSeq(b, 1, Len(a)) = a

\* C24: every chunk a child writes to stdout, stderr or the serial port while
\* the channel's callback is stored is handed to that callback, and on each
\* channel the chunks handed over are the chunks written, in the order written.
C24_ChannelsDeliverInOrder ==
    /\ \A k \in 1..MaxChunks :
          (k <= Len(produced) /\ CallbackOf(produced[k].ch) \in registered)
             ~> (k <= Len(produced) /\ k \in Range(DeliveredOn(produced[k].ch)))
    /\ [](\A ch \in Channels : IsPrefix(DeliveredOn(ch), ProducedOn(ch)))


\* a child of this Launcher was reaped by stop() or terminate()
Terminated == \E i \in DOMAIN children : children[i].st = "reaped"
\* an Impl::start() failed at its pipes or at the spawn: it left no child
Failed == nStarts > Len(children)

\* C25: once a child of the Launcher was reaped, or a start() failed at its
\* pipes or at the spawn, no later step spawns a child.
C25_TerminatedAndFailedAreTerminal ==
    [][(Terminated \/ Failed) => Len(children') = Len(children)]_vars


----------------------------------------------------------------------------
Setters == {"setQemuPath", "setBios", "addArgument"}
FrameOps == {"start", "stop", "terminate", "writeStdIn"} \cup Callbacks

\* C26: a step of start(), stop(), terminate(), writeStdIn() or a callback
\* registration leaves the path, the bios file and the argument list as they
\* were, and the path changes in a step of setQemuPath() only.
C26_ConfigurationFrame ==
    [][/\ event'.op \in FrameOps => UNCHANGED cfgVars
       /\ mQemuPath' # mQemuPath => event'.op = "setQemuPath"]_vars

\* a start() that returned true on a Launcher with a path, a bios file, an
\* argument and a stored callback
C26_Witness ==
    /\ event.op = "start"
    /\ event.ret
    /\ mQemuPath # Empty
    /\ mBiosFile # Empty
    /\ mArguments # <<>>
    /\ registered # {}


----------------------------------------------------------------------------
(* A caller that configures the Launcher and starts it *)

NextConfig ==
    \/ \E p \in PathChoices(variant) : SetQemuPath(p)
    \/ \E b \in BiosChoices : SetBios(b)
    \/ \E a \in {Arg, Arg2} : AddArgument(a)
    \/ Start_generic
    \/ Start_macos
    \/ Start_windows

SpecConfig == Init /\ [][NextConfig]_vars

\* C27: after setQemuPath(p) the path is p, after setBios(b) the bios file
\* is b, addArgument(a) puts a at the end of the argument list, and each of
\* the three leaves the other two fields as they were.
C27_SettersRoundTrip ==
    /\ [](event.op = "setQemuPath" => mQemuPath = event.arg)
    /\ [](event.op = "setBios" => mBiosFile = event.arg)
    /\ [][/\ event'.op = "setQemuPath" => UNCHANGED <<mBiosFile, mArguments>>
          /\ event'.op = "setBios" => UNCHANGED <<mQemuPath, mArguments>>
          /\ event'.op = "addArgument" =>
                /\ mArguments' = Append(mArguments, event'.arg)
                /\ UNCHANGED <<mQemuPath, mBiosFile>>]_vars

\* two different arguments were added, and a path and a bios file were set
C27_Witness ==
    /\ event.op = "addArgument"
    /\ mArguments = <<Arg2, Arg>>
    /\ mQemuPath = MissingFile
    /\ mBiosFile = BiosFile


\* the words of a recorded command line: the vector of execv, or the string
\* of CreateProcessW split at its spaces
Words(v, argv) == IF v = "windows" THEN SplitOn(argv[1], " ") ELSE argv

\* C28: the command line a start() builds for the child is the path, "-bios",
\* the bios file, and then the arguments in the order they were added.
C28_CommandLine ==
    (event.op = "start" /\ event.argv # <<>>)
       => Words(variant, event.argv) = <<mQemuPath, BIOS, mBiosFile>> \o mArguments

\* a child was spawned with two different arguments
C28_Witness ==
    /\ event.op = "start"
    /\ event.made = 1
    /\ event.argv # <<>>
    /\ mArguments = <<Arg2, Arg>>


----------------------------------------------------------------------------
\* the kinds of the pipe ends open in the parent
OpenKinds == {h.kind : h \in handles}

\* C29: a start() that wires a child gives it the read end of the stdin pipe
\* and the write ends of the stdout and stderr pipes, and when it has
\* returned true the parent holds the stdin write end and the stdout and
\* stderr read ends and none of the ends given to the child.
C29_PipeWiring ==
    (event.op = "start" /\ event.childEnds # <<>>)
       => /\ event.childEnds = <<"stdin_r", "stdout_w", "stderr_w">>
          /\ event.ret =>
                /\ {"stdin_w", "stdout_r", "stderr_r"} \subseteq OpenKinds
                /\ OpenKinds \cap Range(event.childEnds) = {}


\* the operating system can run the file the path names
Launchable(path) == exists(path) /\ (IsPosix(variant) => access_X_OK(path))

\* C30: a start() that passed the checks on a path the operating system
\* cannot run returns false.
C30_SpawnFailureReported ==
    (event.op = "start" /\ event.entered /\ ~Launchable(mQemuPath)) => ~event.ret


----------------------------------------------------------------------------
(* Launcher::Impl::start() of the Windows build, called on a configured    *)
(* Launcher without the checks of Launcher::start()                        *)

InitImplWindows == Init /\ variant = "windows"

Impl_start_windows_direct ==
    /\ pc = "idle"
    /\ nStarts < MaxStarts
    /\ \E namedOk \in BOOLEAN, spawnOk \in BOOLEAN,
          connect \in {"connected", "already", "error", "never"} :
           Impl_start_windows(namedOk, spawnOk, connect)
    /\ UNCHANGED <<envVars, thr, cbVars, last, cfgVars>>

NextImplWindows ==
    \/ \E p \in PathChoices(variant) : SetQemuPath(p)
    \/ \E b \in BiosChoices : SetBios(b)
    \/ AddArgument(Arg)
    \/ Impl_start_windows_direct
    \/ \E op \in {"stop", "terminate"} : StopOrTerminate_stub(op)
    \/ \E i \in 1..Len(children) : ChildExit(i)

SpecImplWindows == InitImplWindows /\ [][NextImplWindows]_vars /\ Fairness

----------------------------------------------------------------------------
(* stop() and terminate() of the macOS build called from two threads: the  *)
(* members are read and written without a lock, one statement at a time    *)

\* mStdInPipe[1], mStdOutPipe[0], mStdErrPipe[0]
PipeFd(k) ==
    CASE k = 1 -> mStdInPipe[2]
      [] k = 2 -> mStdOutPipe[1]
      [] k = 3 -> mStdErrPipe[1]

\* what a thread step leaves alone besides the members it names
ThreadFrame == <<envVars, cbVars, last, cfgVars, mQemuStdin, nStarts, pc, event>>

\* "if (mQemuPid > 0)": the thread goes on to kill, or returns false
T_call(t, op) ==
    /\ variant = "macos"
    /\ pc = "idle"
    /\ thr[t].pc = "idle"
    /\ thr' = [thr EXCEPT ![t] =
                 IF mQemuPid > 0
                 THEN [@ EXCEPT !.pc = "kill", !.op = op]
                 ELSE [@ EXCEPT !.pc = "done", !.op = op, !.ret = FALSE]]
    /\ UNCHANGED <<ThreadFrame, mQemuPid, pipeVars, handles, children>>

\* the children a signal sent to pid reaches: the child of that number, or,
\* for kill(-1, sig), every child
Signalled(pid) ==
    {i \in DOMAIN children : children[i].st = "running" /\ (pid = -1 \/ pid = i)}

\* "kill(mQemuPid, SIGTERM)" or "kill(mQemuPid, SIGKILL)": a running child
\* dies of SIGKILL, and dies of SIGTERM or ignores it
T_kill(t) ==
    /\ thr[t].pc = "kill"
    /\ thr' = [thr EXCEPT ![t].pc = "wait", ![t].sig = Append(@, mQemuPid)]
    /\ \/ children' = [i \in DOMAIN children |->
                          IF i \in Signalled(mQemuPid)
                          THEN [children[i] EXCEPT !.st = "zombie"]
                          ELSE children[i]]
       \/ thr[t].op = "stop" /\ UNCHANGED children
    /\ UNCHANGED <<ThreadFrame, mQemuPid, pipeVars, handles>>

\* the children waitpid(pid, &status, 0) can return: the one of that number,
\* or, for pid -1, any
Awaited(pid) == {i \in DOMAIN children : children[i].st # "reaped" /\ (pid = -1 \/ pid = i)}

\* "waitpid(mQemuPid, &status, 0)": it reaps an exited child, fails at once
\* when there is none to wait for, and blocks while the child runs
T_wait(t) ==
    /\ thr[t].pc = "wait"
    /\ thr' = [thr EXCEPT ![t].pc = "reset", ![t].waited = Append(@, mQemuPid)]
    /\ IF Awaited(mQemuPid) = {}
       THEN UNCHANGED children
       ELSE \E i \in Awaited(mQemuPid) :
               /\ children[i].st = "zombie"
               /\ children' = [children EXCEPT ![i].st = "reaped"]
    /\ UNCHANGED <<ThreadFrame, mQemuPid, pipeVars, handles>>

\* "mQemuPid = -1"
T_reset(t) ==
    /\ thr[t].pc = "reset"
    /\ mQemuPid' = -1
    /\ thr' = [thr EXCEPT ![t].pc = "test", ![t].k = 1]
    /\ UNCHANGED <<ThreadFrame, pipeVars, handles, children>>

\* after the k-th pipe: the next one, or "return true"
AfterPipe(t) ==
    IF thr[t].k < 3
    THEN [thr[t] EXCEPT !.pc = "test", !.k = @ + 1]
    ELSE [thr[t] EXCEPT !.pc = "done", !.ret = TRUE]

\* "if (mStdInPipe[1] != -1)" and its two siblings
T_test(t) ==
    /\ thr[t].pc = "test"
    /\ thr' = [thr EXCEPT ![t] =
                 IF PipeFd(thr[t].k) # -1 THEN [@ EXCEPT !.pc = "close"]
                 ELSE AfterPipe(t)]
    /\ UNCHANGED <<ThreadFrame, mQemuPid, pipeVars, handles, children>>

\* "close(mStdInPipe[1]); mStdInPipe[1] = -1;" and its two siblings: close
\* takes the number as it is now, and closes whatever descriptor has it
T_close(t) ==
    /\ thr[t].pc = "close"
    /\ handles' = {h \in handles : h.fd # PipeFd(thr[t].k)}
    /\ mStdInPipe' = IF thr[t].k = 1 THEN <<mStdInPipe[1], -1>> ELSE mStdInPipe
    /\ mStdOutPipe' = IF thr[t].k = 2 THEN <<-1, mStdOutPipe[2]>> ELSE mStdOutPipe
    /\ mStdErrPipe' = IF thr[t].k = 3 THEN <<-1, mStdErrPipe[2]>> ELSE mStdErrPipe
    /\ thr' = [thr EXCEPT ![t] =
                 [AfterPipe(t) EXCEPT !.closed = Append(@, PipeFd(thr[t].k))]]
    /\ UNCHANGED <<ThreadFrame, mQemuPid, children>>

\* no thread has called stop() or terminate() yet
NoThreadCalled == \A t \in Threads : thr[t].pc = "idle"

InitConcurrent == Init /\ variant = "macos"

\* the session is set up by one thread; then each thread makes one call
NextConcurrent ==
    \/ SetBios(BiosFile)
    \/ NoThreadCalled /\ Start_macos
    \/ \E t \in Threads, op \in {"stop", "terminate"} : T_call(t, op)
    \/ \E t \in Threads : T_kill(t)
    \/ \E t \in Threads : T_wait(t)
    \/ \E t \in Threads : T_reset(t)
    \/ \E t \in Threads : T_test(t)
    \/ \E t \in Threads : T_close(t)
    \/ \E i \in 1..Len(children) : ChildExit(i)

SpecConcurrent == InitConcurrent /\ [][NextConcurrent]_vars

\* thread t sent a signal, waited for a child or closed a descriptor
Acted(t) == thr[t].sig # <<>> \/ thr[t].waited # <<>> \/ thr[t].closed # <<>>

\* C33: of two threads that call stop() or terminate() on one session, at
\* most one signals, waits and closes; the other does none of the three and
\* returns false. (No start() follows a call here, so the calls of the two
\* threads are about the same session.)
C33_StopTerminateAtomic ==
    \A t1, t2 \in Threads :
        (t1 # t2 /\ Acted(t1)) => (~Acted(t2) /\ (thr[t2].pc = "done" => ~thr[t2].ret))


----------------------------------------------------------------------------
\* C34: once stop() or terminate() has reaped a child and released its pipe
\* ends, every chunk that child wrote to stdout or stderr has been handed to
\* the channel's stored callback.
C34_DrainedBeforeRelease ==
    \A k \in DOMAIN produced :
        (/\ produced[k].ch \in {"stdout", "stderr"}
         /\ children[produced[k].pid].st = "reaped"
         /\ CallbackOf(produced[k].ch) \in registered)
           => k \in Range(DeliveredOn(produced[k].ch))


C36_FailedStartClosesItsHandles ==
    [][(/\ nStarts' # nStarts
        /\ event'.op = "start"
        /\ event'.returned
        /\ ~event'.ret
        /\ event'.made = 0) => handles' \subseteq handles]_vars


\* the descriptor numbers the members hold for the parent's three pipe ends
ParentFds == {mStdInPipe[2], mStdOutPipe[1], mStdErrPipe[1]} \ {-1}

\* C37: while the macOS build has a child recorded, the parent's three pipe
\* ends are open, and the stop() or terminate() that reaps the child closes
\* only numbers that are open at that time, so that no number is closed
\* twice.
C37_ParentEndsClosedOnce ==
    /\ []((variant = "macos" /\ mQemuPid > 0) => ParentFds \subseteq OpenFds)
    /\ [][(event'.reaped > 0 /\ children' # children)
             => ParentFds \subseteq OpenFds]_vars


\* the step is a call of stop() or terminate()
StopStep == event'.op \in {"stop", "terminate"} /\ event' # event
\* every child spawned so far has been reaped (or none was spawned)
NoChildLeft == \A i \in DOMAIN children : children[i].st = "reaped"

\* C38: a stop() or terminate() made when no child is left returns false,
\* reaps nothing and closes nothing; one that reaps takes a child that was
\* not reaped before and leaves no pid recorded.
C38_SignalOnlyLiveChild ==
    /\ [][(StopStep /\ NoChildLeft)
             => /\ event'.returned
                /\ ~event'.ret
                /\ event'.reaped = 0
                /\ handles' = handles
                /\ children' = children]_vars
    /\ [][(StopStep /\ event'.reaped > 0)
             => /\ children[event'.reaped].st # "reaped"
                /\ mQemuPid' = -1]_vars

=============================================================================
